---- MODULE Spec2Model ----
(***************************************************************************)
(* A model of the NBA betting-recommendation pipeline:                     *)
(*   tools/odds_tool.py   best-price aggregation of bookmaker quotes       *)
(*   tools/cache.py, tools/stats_tool.py   tiered per-team feature cache   *)
(*   chains.py            fetch_odds -> add_team_features ->               *)
(*                        score_vs_market -> rank_recs                     *)
(*                                                                         *)
(* Python's None is the empty tuple <<>> and a present value v is <<v>>,   *)
(* so that 0 / 0.0 and None stay different values, as they are in Python.  *)
(* Probabilities, edges, EVs and Kelly fractions are integers in units of  *)
(* 1/Scale (the 4 decimal places the scorer rounds to).                    *)
(***************************************************************************)
EXTENDS Integers, Sequences, FiniteSets, TLC

VARIABLES
    mode,             \* which entry point of the program is being exercised
    rec,              \* get_nba_odds: the markets of the record being aggregated
    obs,              \* get_nba_odds: outcomes read so far, per (market key, outcome name)
    pc,               \* position of the pipeline run (NBA_CHAIN)
    scored,           \* rank_recs: its input inp["scored"]
    recommendations,  \* rank_recs: its output, None until it has returned
    now,              \* time.time(), in tenths of a second
    cache_hours,      \* CACHE_HOURS, set from NBA_CACHE_HOURS when the module is loaded
    cache,            \* .cache/nba/team_gamelog_<id>.csv per team id: None or Some(file)
    lk,               \* the rolling_team_features call in progress
    faults,           \* anomalous answers of the stats source and the disk so far
    io,               \* what the run has done: live calls, cache writes, lookups
    games,            \* the games fetch_odds returned
    pos,              \* add_team_features: the game and side being looked up
    out               \* add_team_features: the games with their features so far

oddsVars == <<rec, obs>>
rankVars == <<scored, recommendations>>
statsVars == <<now, cache_hours, cache, lk, faults, io>>
runVars == <<games, pos, out>>
vars == <<mode, pc, oddsVars, rankVars, statsVars, runVars>>

None == <<>>
Some(v) == <<v>>
Val(o) == o[1]

Abs(x) == IF x < 0 THEN -x ELSE x

(***************************************************************************)
(* Bounds of the model.                                                    *)
(***************************************************************************)
MaxQuotes == 3     \* outcomes read for one game in the odds specification
MaxGames == 3      \* games in the list handed to rank_recs
MaxFaults == 2     \* anomalous answers of the stats source and the disk in one run
MaxRunGames == 2   \* games in the answer of the odds source in a pipeline run

\* The variables a specification does not use keep these values.
UnusedStats == now = 0 /\ cache_hours = 0 /\ cache = <<>> /\ lk = None /\ faults = 0 /\ io = None
UnusedRun == games = <<>> /\ pos = None /\ out = <<>>
UnusedOdds == rec = None /\ obs = <<>>

(***************************************************************************)
(* tools/odds_tool.py                                                      *)
(***************************************************************************)

\* The exception "float division by zero" as the outcome of a function that
\* returns a number, a price or a list, and of one that returns a record.
ZeroDivisionError == <<"raise", "ZeroDivisionError", "float division by zero">>
RaisedRecord == [raised |-> "ZeroDivisionError"]

\* A payout per dollar is the exact fraction <<numerator, denominator>>;
\* 100.0 / abs(a) raises for the price 0.
american_payout_per_dollar(a) ==
    IF a >= 100 THEN <<a, 100>>
    ELSE IF a = 0 THEN ZeroDivisionError
    ELSE <<100, Abs(a)>>

\* x > y for two fractions with positive denominators.
FracGT(x, y) == x[1] * y[2] > y[1] * x[2]

choose_better_moneyline_ties_replace(current, new) ==
    IF new = None THEN current
    ELSE IF current = None THEN new
    ELSE LET pn == american_payout_per_dollar(Val(new))
             pcur == american_payout_per_dollar(Val(current))
         IN  IF pn = ZeroDivisionError \/ pcur = ZeroDivisionError THEN ZeroDivisionError
             ELSE IF ~FracGT(pcur, pn) THEN new ELSE current

\* The price kept, or the exception of a payout that cannot be computed.
choose_better_moneyline(current, new) ==
    IF new = None THEN current
    ELSE IF current = None THEN new
    ELSE LET pn == american_payout_per_dollar(Val(new))
             pcur == american_payout_per_dollar(Val(current))
         IN  IF pn = ZeroDivisionError \/ pcur = ZeroDivisionError THEN ZeroDivisionError
             ELSE IF FracGT(pn, pcur) THEN new ELSE current

\* The spreads/totals update of one side: <<price, point>> after the outcome
\* (price, point) has been read against the stored <<cur_price, cur_point>>.
better_price_and_point_split(cur_price, cur_point, price, point) ==
    LET better == choose_better_moneyline(cur_price, price)
    IN  IF better = ZeroDivisionError THEN ZeroDivisionError
        ELSE <<better, IF price # None THEN point ELSE cur_point>>

better_price_and_point(cur_price, cur_point, price, point) ==
    LET better == choose_better_moneyline(cur_price, price)
    IN  IF better = ZeroDivisionError THEN ZeroDivisionError
        ELSE IF better # cur_price THEN <<better, point>> ELSE <<cur_price, cur_point>>

\* The game whose bookmakers are aggregated in the odds specification.
HomeName == "Lakers"
AwayName == "Celtics"

MarketKeys == {"h2h", "spreads", "totals"}
OutcomeNames == {HomeName, AwayName, "Over", "Under", "Draw"}
Prices == {None, Some(-110), Some(-100), Some(0), Some(100), Some(120)}
Points == {Some(3), Some(4)}

\* The outcomes a bookmaker lists under a market key: name, price, optional point.
Outcomes(key) ==
    IF key = "h2h"
    THEN [name : {HomeName, AwayName, "Draw"}, price : Prices, point : {None}]
    ELSE IF key = "spreads"
    THEN [name : {HomeName, AwayName}, price : Prices, point : Points]
    ELSE [name : {"Over", "Under"}, price : Prices, point : Points]

\* (o.get("name") or "").lower() contains "over" / "under", for the names above.
HasOver(name) == name = "Over"
HasUnder(name) == name = "Under"

EmptyMarkets ==
    [h2h     |-> [home_price |-> None, away_price |-> None],
     spreads |-> [home_point |-> None, home_price |-> None,
                  away_point |-> None, away_price |-> None],
     totals  |-> [over_point |-> None, over_price |-> None,
                  under_point |-> None, under_price |-> None]]

\* The body of the loops over bookmakers, markets and outcomes for one outcome o
\* of a market with the given key: the markets record after it, or the exception
\* raised out of _choose_better_moneyline.
aggregate_outcome(m, home, away, key, o) ==
    IF key = "h2h" THEN
        IF o.name = home
        THEN LET better == choose_better_moneyline(m.h2h.home_price, o.price)
             IN  IF better = ZeroDivisionError THEN RaisedRecord
                 ELSE [m EXCEPT !.h2h.home_price = better]
        ELSE IF o.name = away
        THEN LET better == choose_better_moneyline(m.h2h.away_price, o.price)
             IN  IF better = ZeroDivisionError THEN RaisedRecord
                 ELSE [m EXCEPT !.h2h.away_price = better]
        ELSE m
    ELSE IF key = "spreads" THEN
        IF o.name = home
        THEN LET pp == better_price_and_point(m.spreads.home_price, m.spreads.home_point,
                                              o.price, o.point)
             IN  IF pp = ZeroDivisionError THEN RaisedRecord
                 ELSE [m EXCEPT !.spreads.home_price = pp[1], !.spreads.home_point = pp[2]]
        ELSE IF o.name = away
        THEN LET pp == better_price_and_point(m.spreads.away_price, m.spreads.away_point,
                                              o.price, o.point)
             IN  IF pp = ZeroDivisionError THEN RaisedRecord
                 ELSE [m EXCEPT !.spreads.away_price = pp[1], !.spreads.away_point = pp[2]]
        ELSE m
    ELSE IF key = "totals" THEN
        IF HasOver(o.name)
        THEN LET pp == better_price_and_point(m.totals.over_price, m.totals.over_point,
                                              o.price, o.point)
             IN  IF pp = ZeroDivisionError THEN RaisedRecord
                 ELSE [m EXCEPT !.totals.over_price = pp[1], !.totals.over_point = pp[2]]
        ELSE IF HasUnder(o.name)
        THEN LET pp == better_price_and_point(m.totals.under_price, m.totals.under_point,
                                              o.price, o.point)
             IN  IF pp = ZeroDivisionError THEN RaisedRecord
                 ELSE [m EXCEPT !.totals.under_price = pp[1], !.totals.under_point = pp[2]]
        ELSE m
    ELSE m

Slots == MarketKeys \X OutcomeNames

RECURSIVE SumLen(_, _)
SumLen(f, S) ==
    IF S = {} THEN 0
    ELSE LET s == CHOOSE x \in S : TRUE IN Len(f[s]) + SumLen(f, S \ {s})

QuotesRead == SumLen(obs, Slots)

InitOdds ==
    /\ mode = "odds"
    /\ rec = EmptyMarkets
    /\ obs = [s \in Slots |-> <<>>]
    /\ pc = "aggregate"
    /\ scored = <<>>
    /\ recommendations = None
    /\ UnusedStats
    /\ UnusedRun

\* One iteration of the innermost loop of get_nba_odds.
ReadOutcome ==
    /\ mode = "odds"
    /\ pc = "aggregate"
    /\ QuotesRead < MaxQuotes
    /\ \E key \in MarketKeys : \E o \in Outcomes(key) :
          /\ aggregate_outcome(rec, HomeName, AwayName, key, o) # RaisedRecord
          /\ rec' = aggregate_outcome(rec, HomeName, AwayName, key, o)
          /\ obs' = [obs EXCEPT ![<<key, o.name>>] = Append(@, o)]
    /\ UNCHANGED <<mode, pc, rankVars, statsVars, runVars>>

\* An iteration that compares a price with the price 0: ZeroDivisionError leaves
\* get_nba_odds, no list of games is returned.
ReadOutcomeRaises ==
    /\ mode = "odds"
    /\ pc = "aggregate"
    /\ QuotesRead < MaxQuotes
    /\ \E key \in MarketKeys : \E o \in Outcomes(key) :
          /\ aggregate_outcome(rec, HomeName, AwayName, key, o) = RaisedRecord
          /\ obs' = [obs EXCEPT ![<<key, o.name>>] = Append(@, o)]
    /\ pc' = "raised"
    /\ UNCHANGED <<mode, rec, rankVars, statsVars, runVars>>

NextOdds == ReadOutcome \/ ReadOutcomeRaises

SpecOdds == InitOdds /\ [][NextOdds]_vars

(***************************************************************************)
(* Claims about the best-price aggregation (SpecOdds).                     *)
(***************************************************************************)

\* Payout per dollar of a price, as an exact fraction: a/100 for a >= 100 and
\* 100/|a| for a negative price.
StatedPayout(a) == IF a >= 100 THEN <<a, 100>> ELSE <<100, -a>>

HasPrice(q) == q.price # None
Priced(qs) == SelectSeq(qs, HasPrice)

\* The outcome of a non-empty sequence of priced outcomes with the largest payout
\* and, among those of equal payout, the earliest.
FirstBest(qs) ==
    qs[CHOOSE i \in 1..Len(qs) :
          \A j \in 1..Len(qs) :
              /\ j < i => FracGT(StatedPayout(Val(qs[i].price)), StatedPayout(Val(qs[j].price)))
              /\ j > i => ~FracGT(StatedPayout(Val(qs[j].price)), StatedPayout(Val(qs[i].price)))]

BestPriceOf(qs) == IF Priced(qs) = <<>> THEN None ELSE FirstBest(Priced(qs)).price
BestPairOf(qs) ==
    IF Priced(qs) = <<>> THEN <<None, None>>
    ELSE <<FirstBest(Priced(qs)).price, FirstBest(Priced(qs)).point>>

\* The outcome read by this step into the slot, if the step read one into it.
ReadInto(slot, q) == obs'[slot] = Append(obs[slot], q)

C1_StoredIsFirstBest ==
    /\ rec.h2h.home_price = BestPriceOf(obs[<<"h2h", HomeName>>])
    /\ rec.h2h.away_price = BestPriceOf(obs[<<"h2h", AwayName>>])

C1_RepeatOrWorseKeeps ==
    /\ \A q \in Outcomes("h2h") :
          /\ ReadInto(<<"h2h", HomeName>>, q)
          /\ q.price # None
          /\ rec.h2h.home_price # None
          /\ \/ \E k \in 1..Len(obs[<<"h2h", HomeName>>]) : obs[<<"h2h", HomeName>>][k] = q
             \/ FracGT(StatedPayout(Val(rec.h2h.home_price)), StatedPayout(Val(q.price)))
          => rec'.h2h.home_price = rec.h2h.home_price
    /\ \A q \in Outcomes("h2h") :
          /\ ReadInto(<<"h2h", AwayName>>, q)
          /\ q.price # None
          /\ rec.h2h.away_price # None
          /\ \/ \E k \in 1..Len(obs[<<"h2h", AwayName>>]) : obs[<<"h2h", AwayName>>][k] = q
             \/ FracGT(StatedPayout(Val(rec.h2h.away_price)), StatedPayout(Val(q.price)))
          => rec'.h2h.away_price = rec.h2h.away_price

\* C1: after any sequence of moneyline quotes the stored price of each side is the
\* priced quote of largest payout per dollar, the earliest among those of equal
\* payout; and reading a quote already read, or a strictly worse one, leaves the
\* stored price as it was.
C1_BestMoneyline ==
    /\ [](mode = "odds" /\ pc = "aggregate" => C1_StoredIsFirstBest)
    /\ [][pc' = "aggregate" => C1_RepeatOrWorseKeeps]_vars

\* Two quotes of equal payout (+100 then -100) and a worse one were read for the home
\* side, and the earliest of the two best is the stored price.
C1_Witness ==
    /\ mode = "odds"
    /\ Len(obs[<<"h2h", HomeName>>]) = 3
    /\ obs[<<"h2h", HomeName>>][1].price = Some(-110)
    /\ obs[<<"h2h", HomeName>>][2].price = Some(100)
    /\ obs[<<"h2h", HomeName>>][3].price = Some(-100)
    /\ rec.h2h.home_price = Some(100)

\* C2: for spreads and totals the stored (price, point) of each side is the (price,
\* point) of one single quote read for that side, the first of best payout: price
\* and point are replaced together or not at all.
C2_PriceAndPointTogether ==
    mode = "odds" /\ pc = "aggregate" =>
        /\ <<rec.spreads.home_price, rec.spreads.home_point>> = BestPairOf(obs[<<"spreads", HomeName>>])
        /\ <<rec.spreads.away_price, rec.spreads.away_point>> = BestPairOf(obs[<<"spreads", AwayName>>])
        /\ <<rec.totals.over_price, rec.totals.over_point>> = BestPairOf(obs[<<"totals", "Over">>])
        /\ <<rec.totals.under_price, rec.totals.under_point>> = BestPairOf(obs[<<"totals", "Under">>])

\* A better quote with another point replaced price and point, and a later quote of
\* equal payout with the first point changed neither.
C2_Witness ==
    /\ mode = "odds"
    /\ Len(obs[<<"spreads", HomeName>>]) = 3
    /\ obs[<<"spreads", HomeName>>][1] = [name |-> HomeName, price |-> Some(-110), point |-> Some(3)]
    /\ obs[<<"spreads", HomeName>>][2] = [name |-> HomeName, price |-> Some(-100), point |-> Some(4)]
    /\ obs[<<"spreads", HomeName>>][3] = [name |-> HomeName, price |-> Some(100), point |-> Some(3)]
    /\ rec.spreads.home_price = Some(-100)
    /\ rec.spreads.home_point = Some(4)

(***************************************************************************)
(* chains.py: rank_recs                                                    *)
(***************************************************************************)

Scale == 10000           \* round(x, 4): values are integers in units of 1/10000
OrDefault == -9          \* (home_ev or -9)
SortDefault == -999      \* the sort key of a best_metric that is None

\* Python's `x or d` for an optional number: d when x is None or zero (0.0 is falsy).
or_default(x, d) == IF x = None \/ Val(x) = 0 THEN d * Scale ELSE Val(x)

\* Python's `x if x is not None else d`.
if_not_none(x, d) == IF x # None THEN Val(x) ELSE d * Scale

\* Strict comparison in the edge branch: away on ties.
rank_one_edge_away_on_ties(g) ==
    LET home_ev == g.ev.home
        away_ev == g.ev.away
        home_edge == g.edge.home
        away_edge == g.edge.away
    IN  IF home_ev # None \/ away_ev # None
        THEN LET best_side == IF or_default(home_ev, OrDefault) >= or_default(away_ev, OrDefault)
                              THEN "home" ELSE "away"
             IN  [game |-> g, best_side |-> best_side,
                  best_metric |-> IF best_side = "home" THEN home_ev ELSE away_ev,
                  metric_name |-> "EV"]
        ELSE LET best_side == IF or_default(home_edge, OrDefault) > or_default(away_edge, OrDefault)
                              THEN "home" ELSE "away"
             IN  [game |-> g, best_side |-> best_side,
                  best_metric |-> IF best_side = "home" THEN home_edge ELSE away_edge,
                  metric_name |-> "edge"]

\* The body of the loop of rank_recs for one scored game g.
rank_one(g) ==
    LET home_ev == g.ev.home
        away_ev == g.ev.away
        home_edge == g.edge.home
        away_edge == g.edge.away
    IN  IF home_ev # None \/ away_ev # None
        THEN LET best_side == IF or_default(home_ev, OrDefault) >= or_default(away_ev, OrDefault)
                              THEN "home" ELSE "away"
             IN  [game |-> g, best_side |-> best_side,
                  best_metric |-> IF best_side = "home" THEN home_ev ELSE away_ev,
                  metric_name |-> "EV"]
        ELSE LET best_side == IF or_default(home_edge, OrDefault) >= or_default(away_edge, OrDefault)
                              THEN "home" ELSE "away"
             IN  [game |-> g, best_side |-> best_side,
                  best_metric |-> IF best_side = "home" THEN home_edge ELSE away_edge,
                  metric_name |-> "edge"]

sort_key_none_as_zero(r) == if_not_none(r.best_metric, 0)

\* key=lambda r: (r["best_metric"] if r["best_metric"] is not None else -999)
sort_key(r) == if_not_none(r.best_metric, SortDefault)

\* list.sort(key=..., reverse=True): descending by key, and stable (items of equal
\* key keep their order), as an insertion of each item behind every item whose key
\* is at least its own.
insert_sorted(s, x) ==
    LET k == Cardinality({i \in 1..Len(s) : sort_key(s[i]) >= sort_key(x)})
    IN  SubSeq(s, 1, k) \o <<x>> \o SubSeq(s, k + 1, Len(s))

RECURSIVE sort_reverse(_)
sort_reverse(s) ==
    IF s = <<>> THEN <<>>
    ELSE insert_sorted(sort_reverse(SubSeq(s, 1, Len(s) - 1)), s[Len(s)])

rank_recs(inp) == sort_reverse([i \in 1..Len(inp) |-> rank_one(inp[i])])

\* The EV and the edge of one side of a scored game, as score_vs_market emits
\* them: both undefined for a side without a price (an edge needs the implied
\* probability of a price, and a price gives an EV), else the values of a model
\* probability of 0.5 at the prices +100, -120, +110.
SideValues ==
    { [ev |-> None,       edge |-> None],
      [ev |-> Some(0),    edge |-> Some(0)],
      [ev |-> Some(-833), edge |-> Some(-455)],
      [ev |-> Some(500),  edge |-> Some(238)] }

\* A scored game; idx is its position in the input list (the identity of the dict).
ScoredGame(i, h, a) ==
    [idx |-> i, ev |-> [home |-> h.ev, away |-> a.ev], edge |-> [home |-> h.edge, away |-> a.edge]]

InitRank ==
    /\ mode = "rank"
    /\ UnusedOdds
    /\ pc = "rank"
    /\ scored = <<>>
    /\ recommendations = None
    /\ UnusedStats
    /\ UnusedRun

\* score_vs_market puts one more scored game on the list (scored.append).
AppendScored ==
    /\ mode = "rank"
    /\ pc = "rank"
    /\ Len(scored) < MaxGames
    /\ \E h \in SideValues, a \in SideValues :
          scored' = Append(scored, ScoredGame(Len(scored) + 1, h, a))
    /\ UNCHANGED <<mode, pc, oddsVars, recommendations, statsVars, runVars>>

\* rank_recs, the last stage of NBA_CHAIN, on the list as it stands.
RankRecs ==
    /\ pc = "rank"
    /\ recommendations' = Some(rank_recs(scored))
    /\ pc' = "done"
    /\ UNCHANGED <<mode, oddsVars, scored, statsVars, runVars>>

NextRank == AppendScored \/ RankRecs

SpecRank == InitRank /\ [][NextRank]_vars

(***************************************************************************)
(* Claims about rank_recs (SpecRank).                                      *)
(***************************************************************************)

Ranked == Val(recommendations)

\* The side with the higher of two optional metrics: an undefined one is lower than
\* every defined one, and home wins ties.
HigherSide(h, a) ==
    IF a = None THEN "home"
    ELSE IF h = None THEN "away"
    ELSE IF Val(h) >= Val(a) THEN "home" ELSE "away"

SideOf(m, side) == IF side = "home" THEN m.home ELSE m.away

HasEV(g) == g.ev.home # None \/ g.ev.away # None
NoPrice(g) == g.ev.home = None /\ g.ev.away = None /\ g.edge.home = None /\ g.edge.away = None
PositiveEV(g) ==
    \/ g.ev.home # None /\ Val(g.ev.home) > 0
    \/ g.ev.away # None /\ Val(g.ev.away) > 0

\* C3: a game with a defined EV on some side is ranked by EV: the side of higher EV
\* is chosen (undefined below every real EV, home on ties) and best_metric is the
\* defined EV of that side.
C3_HigherEvChosen ==
    pc = "done" =>
        \A k \in 1..Len(Ranked) :
            LET r == Ranked[k] IN
            HasEV(r.game) =>
                /\ r.metric_name = "EV"
                /\ r.best_side = HigherSide(r.game.ev.home, r.game.ev.away)
                /\ r.best_metric = SideOf(r.game.ev, r.best_side)
                /\ r.best_metric # None

\* C4: the output is a permutation of the input, descending by best_metric with the
\* undefined ones last, games of equal metric in input order, and no game without
\* any price above a game with a positive EV.
C4_RankOrder ==
    pc = "done" =>
        /\ Len(Ranked) = Len(scored)
        /\ {Ranked[k].game.idx : k \in 1..Len(Ranked)} = 1..Len(scored)
        /\ \A k \in 1..Len(Ranked) : Ranked[k].game = scored[Ranked[k].game.idx]
        /\ \A i, j \in 1..Len(Ranked) :
              i < j =>
                /\ Ranked[i].best_metric = None => Ranked[j].best_metric = None
                /\ Ranked[i].best_metric # None /\ Ranked[j].best_metric # None
                      => Val(Ranked[i].best_metric) >= Val(Ranked[j].best_metric)
                /\ Ranked[i].best_metric = Ranked[j].best_metric
                      => Ranked[i].game.idx < Ranked[j].game.idx
                /\ ~(NoPrice(Ranked[i].game) /\ PositiveEV(Ranked[j].game))

\* Three games were ranked: the first of the input has no price, the other two have
\* the same positive EV; the two come first, in input order, and the first is last.
C4_Witness ==
    /\ pc = "done"
    /\ Len(scored) = 3
    /\ NoPrice(scored[1])
    /\ scored[2].ev.home = Some(500)
    /\ scored[3].ev.away = Some(500)
    /\ scored[3].ev.home = Some(-833)
    /\ Ranked[1].game.idx = 2
    /\ Ranked[2].game.idx = 3
    /\ Ranked[3].game.idx = 1

\* C5: a game with no defined EV is ranked by edge: the side of higher edge is chosen
\* (undefined below every defined edge, home on ties) under metric_name "edge",
\* game by game, whatever the other games of the list are.
C5_EdgeFallback ==
    pc = "done" =>
        \A k \in 1..Len(Ranked) :
            LET r == Ranked[k] IN
            ~HasEV(r.game) =>
                /\ r.metric_name = "edge"
                /\ r.best_side = HigherSide(r.game.edge.home, r.game.edge.away)
                /\ r.best_metric = SideOf(r.game.edge, r.best_side)

\* Two games were ranked: one without any price, ranked by edge with home chosen,
\* behind one with prices, ranked by EV.
C5_Witness ==
    /\ pc = "done"
    /\ Len(Ranked) = 2
    /\ HasEV(Ranked[1].game) /\ Ranked[1].metric_name = "EV"
    /\ Ranked[1].game.idx = 2
    /\ ~HasEV(Ranked[2].game) /\ Ranked[2].metric_name = "edge"
    /\ Ranked[2].best_side = "home"
    /\ Ranked[2].best_metric = None

(***************************************************************************)
(* tools/cache.py: the persisted per-team dataset                          *)
(***************************************************************************)

\* A DataFrame: whether it has no rows, which live call produced it (0: none of
\* this run), and which of the columns the features depend on it has.
FullCols == {"PTS", "PLUS_MINUS"}
ColumnSets == {FullCols, {"PTS"}, {"PLUS_MINUS"}}
Frame(ver, cols) == [empty |-> FALSE, ver |-> ver, cols |-> cols]
EmptyFrame == [empty |-> TRUE, ver |-> 0, cols |-> {}]

\* A file: its modification time, whether pd.read_csv can parse it, its rows.
File(mtime, readable, data) == [mtime |-> mtime, readable |-> readable, data |-> data]

HourTicks == 3600 * 10

\* The variable now counts the start of the run plus the time slept since; the
\* program's own steps take time as well, so that time.time() in read_df_cache
\* reads a moment later than any sleep or write before it: one tick later here.
ClockStep == 1
time_time(t) == t + ClockStep

read_df_cache_any_age(file, t, max_age_hours) ==
    IF file = None THEN None
    ELSE IF ~Val(file).readable THEN None
    ELSE Some(Val(file).data)

\* The age limit compared without the conversion of hours.
read_df_cache_hours_as_ticks(file, t, max_age_hours) ==
    IF file = None THEN None
    ELSE IF t - Val(file).mtime > max_age_hours THEN None
    ELSE IF ~Val(file).readable THEN None
    ELSE Some(Val(file).data)

read_df_cache(file, t, max_age_hours) ==
    IF file = None THEN None
    ELSE IF t - Val(file).mtime > max_age_hours * HourTicks THEN None
    ELSE IF ~Val(file).readable THEN None
    ELSE Some(Val(file).data)

\* df.to_csv may succeed, fail before the file is opened (the file stays as it was)
\* or fail after it was truncated; write_df_cache swallows the exception.
WriteOutcomes == {"ok", "error", "truncated"}

write_df_cache_keeps_existing(file, df, t, w) ==
    IF file # None THEN file
    ELSE IF w = "ok" THEN Some(File(t, TRUE, df))
    ELSE IF w = "truncated" THEN Some(File(t, FALSE, EmptyFrame))
    ELSE file

write_df_cache(file, df, t, w) ==
    IF w = "ok" THEN Some(File(t, TRUE, df))
    ELSE IF w = "truncated" THEN Some(File(t, FALSE, EmptyFrame))
    ELSE file

(***************************************************************************)
(* tools/stats_tool.py: rolling_team_features and _fetch_team_gamelog      *)
(***************************************************************************)

CacheHours == 6       \* CACHE_HOURS when NBA_CACHE_HOURS is unset
CacheHourSettings == {0, CacheHours}   \* NBA_CACHE_HOURS=0, or unset
StaleHours == 9999    \* max_age_hours of the last-resort read
Attempts == 2         \* attempts=2

\* static_teams.get_teams(): full name -> id, for the teams of the model.
TeamIds == {1, 2}
teams_by_fullname == [n \in {HomeName, AwayName} |-> IF n = HomeName THEN 1 ELSE 2]
UnknownTeam == "Sonics"
NoName == ""

Ev(e, d) == [e |-> e, d |-> d]

\* What one iteration of the retry loop does, in order, for attempt i: the
\* politeness sleep, the live call and, after an exception, the backoff sleep.
attempt_trace_no_sleep_on_retry(i, outcome) ==
    (IF i = 0 THEN <<Ev("nba_sleep", 6)>> ELSE <<>>)
    \o <<Ev("live_call", i)>>
    \o (IF outcome = "exception" THEN <<Ev("backoff", 10 * (1 + i))>> ELSE <<>>)

attempt_trace(i, outcome) ==
    <<Ev("nba_sleep", 6), Ev("live_call", i)>>
    \o (IF outcome = "exception" THEN <<Ev("backoff", 10 * (1 + i))>> ELSE <<>>)

RECURSIVE SleptTicks(_)
SleptTicks(tr) ==
    IF tr = <<>> THEN 0
    ELSE (IF Head(tr).e \in {"nba_sleep", "backoff"} THEN Head(tr).d ELSE 0) + SleptTicks(Tail(tr))

EmptySnapshot == [kind |-> "empty", ver |-> 0, defaulted |-> {}]

\* The statistics of a dataset (lines 89-137): {} for no rows; KeyError when
\* PLUS_MINUS is a column and PTS is not (df["PTS"] - df["PLUS_MINUS"]); else the
\* snapshot, with the statistics of absent columns at their defaults.
features_of(df) ==
    IF df.empty THEN [lpc |-> "returned", result |-> EmptySnapshot]
    ELSE IF "PLUS_MINUS" \in df.cols /\ "PTS" \notin df.cols
    THEN [lpc |-> "raised", result |-> None]
    ELSE [lpc |-> "returned",
          result |-> [kind |-> "feats", ver |-> df.ver, defaulted |-> FullCols \ df.cols]]

IdleLookup ==
    [lpc |-> "idle", team |-> NoName, id |-> 0, i |-> 0, df |-> EmptyFrame,
     events |-> <<>>, result |-> None, file0 |-> None, now0 |-> 0]

EntryOf(team) == [IdleLookup EXCEPT !.lpc = "entry", !.team = team]

NoIo ==
    [odds |-> "none", fetched |-> <<>>, calls |-> 0, writes |-> [id \in TeamIds |-> 0],
     lookups |-> 0, done |-> 0]

\* rolling_team_features up to the choice between the fresh cache and the fetch.
Enter ==
    /\ lk.lpc = "entry"
    /\ io' = [io EXCEPT !.lookups = @ + 1]
    /\ IF lk.team \notin DOMAIN teams_by_fullname
       THEN lk' = [lk EXCEPT !.lpc = "returned", !.result = EmptySnapshot]
       ELSE LET id == teams_by_fullname[lk.team]
                cached == read_df_cache(cache[id], time_time(now), cache_hours)
                l == [lk EXCEPT !.id = id, !.file0 = cache[id], !.now0 = time_time(now),
                                !.events = <<Ev("read", id)>>]
            IN  IF cached # None
                THEN lk' = [l EXCEPT !.lpc = "compute", !.df = Val(cached)]
                ELSE lk' = [l EXCEPT !.lpc = "fetch", !.i = 0]
    /\ UNCHANGED <<mode, pc, oddsVars, rankVars, now, cache_hours, cache, faults, runVars>>

\* One iteration of the loop of _fetch_team_gamelog: the call answers rows.
AttemptData ==
    /\ lk.lpc = "fetch"
    /\ lk.i < Attempts
    /\ \E cols \in ColumnSets, w \in WriteOutcomes :
          LET cost == (IF cols # FullCols THEN 1 ELSE 0) + (IF w # "ok" THEN 1 ELSE 0)
              tr == attempt_trace(lk.i, "data")
              df == Frame(io.calls + 1, cols)
          IN  /\ faults + cost <= MaxFaults
              /\ faults' = faults + cost
              /\ now' = now + SleptTicks(tr)
              /\ cache' = [cache EXCEPT ![lk.id] = write_df_cache(@, df, now', w)]
              /\ lk' = [lk EXCEPT !.lpc = "compute", !.df = df,
                                  !.events = @ \o tr \o <<Ev("write", lk.id)>>
                                             \o (IF w # "ok" THEN <<Ev("write_error", lk.id)>>
                                                 ELSE <<>>)]
              /\ io' = [io EXCEPT !.calls = @ + 1,
                                  !.writes[lk.id] = @ + (IF w = "ok" THEN 1 ELSE 0)]
    /\ UNCHANGED <<mode, pc, oddsVars, rankVars, cache_hours, runVars>>

\* One iteration: the call answers a dataset without rows.
AttemptEmpty ==
    /\ lk.lpc = "fetch"
    /\ lk.i < Attempts
    /\ faults < MaxFaults
    /\ faults' = faults + 1
    /\ LET tr == attempt_trace(lk.i, "empty")
       IN  /\ now' = now + SleptTicks(tr)
           /\ lk' = [lk EXCEPT !.i = @ + 1, !.events = @ \o tr]
    /\ io' = [io EXCEPT !.calls = @ + 1]
    /\ UNCHANGED <<mode, pc, oddsVars, rankVars, cache_hours, cache, runVars>>

\* One iteration: the call raises (transport error, bad payload).
AttemptException ==
    /\ lk.lpc = "fetch"
    /\ lk.i < Attempts
    /\ faults < MaxFaults
    /\ faults' = faults + 1
    /\ LET tr == attempt_trace(lk.i, "exception")
       IN  /\ now' = now + SleptTicks(tr)
           /\ lk' = [lk EXCEPT !.i = @ + 1, !.events = @ \o tr]
    /\ io' = [io EXCEPT !.calls = @ + 1]
    /\ UNCHANGED <<mode, pc, oddsVars, rankVars, cache_hours, cache, runVars>>

\* After the loop: the cached data of any age, else an empty DataFrame.
FallbackStale ==
    /\ lk.lpc = "fetch"
    /\ lk.i >= Attempts
    /\ LET cached == read_df_cache(cache[lk.id], time_time(now), StaleHours)
       IN  lk' = [lk EXCEPT !.lpc = "compute",
                            !.df = IF cached # None THEN Val(cached) ELSE EmptyFrame,
                            !.events = @ \o <<Ev("read", lk.id)>>]
    /\ UNCHANGED <<mode, pc, oddsVars, rankVars, now, cache_hours, cache, faults, io, runVars>>

\* The rest of rolling_team_features: the statistics of the dataset obtained.
Compute ==
    /\ lk.lpc = "compute"
    /\ lk' = [lk EXCEPT !.lpc = features_of(lk.df).lpc, !.result = features_of(lk.df).result]
    /\ UNCHANGED <<mode, pc, oddsVars, rankVars, now, cache_hours, cache, faults, io, runVars>>

Lookup == Enter \/ AttemptData \/ AttemptEmpty \/ AttemptException \/ FallbackStale \/ Compute

\* One call of rolling_team_features, for a team and a persisted dataset of any
\* state and age; the other team's file is there to stay untouched.
Now0 == 10001 * HourTicks
LookupAges == {5, 7, 10000}
LookupFiles ==
    {None}
    \cup {Some(File(Now0 - h * HourTicks, TRUE, Frame(0, cols))) : h \in LookupAges, cols \in ColumnSets}
    \cup {Some(File(Now0 - h * HourTicks, FALSE, EmptyFrame)) : h \in {5, 7}}

InitLookup ==
    /\ mode = "lookup"
    /\ pc = "lookup"
    /\ UnusedOdds
    /\ scored = <<>> /\ recommendations = None
    /\ UnusedRun
    /\ now = Now0
    /\ cache_hours \in CacheHourSettings
    /\ \E f \in LookupFiles :
          cache = [id \in TeamIds |-> IF id = 1 THEN f
                                      ELSE Some(File(Now0 - 7 * HourTicks, TRUE, Frame(0, FullCols)))]
    /\ \E team \in {HomeName, UnknownTeam} : lk = EntryOf(team)
    /\ faults = 0
    /\ io = NoIo

NextLookup == Lookup

SpecLookup == InitLookup /\ [][NextLookup]_vars

(***************************************************************************)
(* tools/features.py, tools/injuries.py, tools/model.py: the scorer's parts *)
(***************************************************************************)

\* round(x, 4) of the float x the code computed for the exact value n/d (in units
\* of 1/Scale, d > 0): the nearest unit. When n/d lies exactly half way between
\* two units, x is the binary float next to it, just below, just above or (when
\* the half is a binary fraction) on it, and round gives one of the two units,
\* which one depending on the rounding errors of the float operations before:
\* both are possible results here.
RoundDiv(n, d) ==
    LET q == n \div d
        r == n - q * d
    IN  IF 2 * r < d THEN {q}
        ELSE IF 2 * r > d THEN {q + 1}
        ELSE {q, q + 1}

\* round(x, 4) if x is not None else None.
RoundOpt(x) == IF x = None THEN {None} ELSE {Some(v) : v \in RoundDiv(Val(x)[1], Val(x)[2])}

\* The branch of the positive prices left out.
american_to_implied_negative_only(odds) ==
    IF odds = None THEN None
    ELSE IF Val(odds) < 0 THEN Some(<<-Val(odds), -Val(odds) + 100>>)
    ELSE None

\* The implied probability as an exact fraction, None for no price (and for 0).
american_to_implied(odds) ==
    IF odds = None THEN None
    ELSE IF Val(odds) < 0 THEN Some(<<-Val(odds), -Val(odds) + 100>>)
    ELSE IF Val(odds) > 0 THEN Some(<<100, Val(odds) + 100>>)
    ELSE None

\* profit_if_win / b as an exact fraction.
profit_if_win(odds) == IF odds > 0 THEN <<odds, 100>> ELSE <<100, -odds>>

\* 100.0 / (-odds) in ev_from_prob and kelly_fraction raises ZeroDivisionError for
\* the price 0 (int(odds) is 0, the else branch is taken).
divides_by_zero(odds) == odds = 0

\* EV = p * profit - (1 - p), as a fraction in units of 1/Scale, for p = P/Scale.
ev_from_prob(P, odds) ==
    LET b == profit_if_win(odds)
    IN  <<P * b[1] - (Scale - P) * b[2], b[2]>>

\* The negative stake returned as it is.
kelly_fraction_no_floor(P, odds) ==
    LET b == profit_if_win(odds)
        numer == P * (b[1] + b[2]) - Scale * b[2]
    IN  IF b[1] = 0 THEN <<0, 1>> ELSE <<numer, b[1]>>

\* Kelly: max(0, (p * (b + 1) - 1) / b), 0 when b is 0.
kelly_fraction(P, odds) ==
    LET b == profit_if_win(odds)
        numer == P * (b[1] + b[2]) - Scale * b[2]
    IN  IF b[1] = 0 THEN <<0, 1>>
        ELSE IF numer < 0 THEN <<0, 1>> ELSE <<numer, b[1]>>

\* TEAM_NAME_TO_ID, and the ids build_feature_row falls back to.
get_team_id(name) == IF name \in DOMAIN teams_by_fullname THEN Some(teams_by_fullname[name]) ELSE None

build_feature_row(home, away) ==
    [home_team_id |-> IF get_team_id(home) = None THEN -1 ELSE Val(get_team_id(home)),
     away_team_id |-> IF get_team_id(away) = None THEN -2 ELSE Val(get_team_id(away))]


\* injuries.json: no file (no adjustment) or an offset for one team.
AdjustmentFiles == {<<>>, [n \in {HomeName} |-> -600]}
\* _load_adjustments: the mapping of the file, {} when it is missing or when
\* reading it raises (bad JSON, not an object, a value float() rejects).
load_adjustments(file) == IF file.kind = "mapping" THEN file.map ELSE <<>>

adj_get(adj, team) == IF team \in DOMAIN adj THEN adj[team] ELSE 0

\* The lower limit left out.
clamp_upper_only(x, lo, hi) == IF x > hi THEN hi ELSE x

clamp(x, lo, hi) == IF x > hi THEN hi ELSE IF x < lo THEN lo ELSE x

adjust_home_prob(adj, home, away, P) ==
    clamp(P + adj_get(adj, home) - adj_get(adj, away), 100, 9900)

(***************************************************************************)
(* chains.py: fetch_odds, add_team_features, score_vs_market               *)
(***************************************************************************)

RECURSIVE aggregate_all(_, _, _, _)
aggregate_all(m, home, away, quotes) ==
    IF quotes = <<>> THEN m
    ELSE LET after == aggregate_outcome(m, home, away, quotes[1][1], quotes[1][2])
         IN  IF after = RaisedRecord THEN RaisedRecord
             ELSE aggregate_all(after, home, away, Tail(quotes))

\* The record get_nba_odds makes of one raw game (home_team, away_team, teams and
\* the outcomes of its bookmakers in order).
game_record(g) ==
    LET home == g.home_team
        away == IF g.away_team # NoName THEN g.away_team
                ELSE IF home # NoName /\ Len(g.teams) = 2
                     THEN (IF g.teams[1] # home THEN g.teams[1] ELSE g.teams[2])
                     ELSE NoName
        markets == aggregate_all(EmptyMarkets, home, away, g.quotes)
    IN  IF markets = RaisedRecord THEN RaisedRecord
        ELSE [home_team |-> home, away_team |-> away, markets |-> markets]

\* The aggregation of some game of the answer raises.
get_nba_odds_raises(data) == \E i \in 1..Len(data) : game_record(data[i]) = RaisedRecord

get_nba_odds(data) ==
    IF get_nba_odds_raises(data) THEN ZeroDivisionError
    ELSE [i \in 1..Len(data) |-> game_record(data[i])]

BothNames(g) == g.home_team # NoName /\ g.away_team # NoName

\* The list of get_nba_odds passed on without the filter.
fetch_odds_keeps_all(data) == get_nba_odds(data)

fetch_odds(data) ==
    IF get_nba_odds_raises(data) THEN ZeroDivisionError
    ELSE SelectSeq(get_nba_odds(data), BothNames)

Quote(key, name, price) == <<key, [name |-> name, price |-> Some(price), point |-> None]>>

\* The raw games the odds source answers with in the model.
RawGames ==
    { [home_team |-> HomeName, away_team |-> AwayName, teams |-> <<>>,
       quotes |-> <<Quote("h2h", HomeName, 100), Quote("h2h", AwayName, -160)>>],
      [home_team |-> AwayName, away_team |-> HomeName, teams |-> <<>>, quotes |-> <<>>],
      [home_team |-> HomeName, away_team |-> NoName, teams |-> <<UnknownTeam, HomeName>>,
       quotes |-> <<Quote("h2h", HomeName, 110), Quote("h2h", HomeName, 120)>>],
      [home_team |-> NoName, away_team |-> AwayName, teams |-> <<>>,
       quotes |-> <<Quote("h2h", AwayName, -110)>>],
      [home_team |-> AwayName, away_team |-> HomeName, teams |-> <<>>,
       quotes |-> <<Quote("h2h", HomeName, 0)>>],
      [home_team |-> HomeName, away_team |-> AwayName, teams |-> <<>>,
       quotes |-> <<Quote("h2h", HomeName, 100), Quote("h2h", HomeName, 0)>>] }

RawLists == UNION {[1..n -> RawGames] : n \in 0..MaxRunGames}

\* The feature rows [home_team_id, away_team_id] of the games a run can score.
FeatureRows ==
    {build_feature_row(game_record(g).home_team, game_record(g).away_team) :
        g \in {r \in RawGames : game_record(r) # RaisedRecord /\ BothNames(game_record(r))}}
\* The classifiers of the model: a home-win probability for each feature row; the
\* constant 0.5 is the fallback of a missing models/win_model.pkl as well.
ModelProbs == {5000, 6500}
Models == [FeatureRows -> ModelProbs]
\* predict_proba: the classifier's answer for X = [[home_team_id, away_team_id]].
predict_proba(model, row) == model[row]

\* The body of the loop of score_vs_market for the game g at position i: the
\* records it may append, one for each result of the roundings.
score_one(g, i, model, adj) ==
    LET home == g.home_team
        away == g.away_team
        row == build_feature_row(home, away)
        p_home == adjust_home_prob(adj, home, away, predict_proba(model, row))
        p_away == Scale - p_home
        home_ml == g.markets.h2h.home_price
        away_ml == g.markets.h2h.away_price
        imp_home == american_to_implied(home_ml)
        imp_away == american_to_implied(away_ml)
        implied(imp) == IF imp # None THEN Some(<<Scale * Val(imp)[1], Val(imp)[2]>>) ELSE None
        edge(P, imp) == IF imp # None
                        THEN Some(<<P * Val(imp)[2] - Scale * Val(imp)[1], Val(imp)[2]>>)
                        ELSE None
        ev(P, ml) == IF ml # None THEN Some(ev_from_prob(P, Val(ml))) ELSE None
        kelly(P, ml) == IF ml # None THEN Some(kelly_fraction(P, Val(ml))) ELSE None
    IN  { [idx |-> i, home |-> home, away |-> away,
           moneyline |-> [home |-> home_ml, away |-> away_ml],
           model |-> [home_win_prob |-> p_home, away_win_prob |-> p_away],
           market_implied |-> [home |-> ih, away |-> ia],
           edge |-> [home |-> dh, away |-> da],
           ev |-> [home |-> eh, away |-> ea],
           kelly |-> [home |-> kh, away |-> ka]] :
          ih \in RoundOpt(implied(imp_home)), ia \in RoundOpt(implied(imp_away)),
          dh \in RoundOpt(edge(p_home, imp_home)), da \in RoundOpt(edge(p_away, imp_away)),
          eh \in RoundOpt(ev(p_home, home_ml)), ea \in RoundOpt(ev(p_away, away_ml)),
          kh \in RoundOpt(kelly(p_home, home_ml)), ka \in RoundOpt(kelly(p_away, away_ml)) }

\* The lists score_vs_market may return for the games gs.
RECURSIVE score_vs_market(_, _, _)
score_vs_market(gs, model, adj) ==
    IF gs = <<>> THEN {<<>>}
    ELSE {Append(front, r) :
            front \in score_vs_market(SubSeq(gs, 1, Len(gs) - 1), model, adj),
            r \in score_one(gs[Len(gs)], Len(gs), model, adj)}

\* The persisted datasets a pipeline run may start with, per team.
RunFiles ==
    {None} \cup {Some(File(Now0 - h * HourTicks, TRUE, Frame(0, FullCols))) : h \in {5, 7}}

InitRun ==
    /\ mode = "run"
    /\ pc = "fetch_odds"
    /\ UnusedOdds
    /\ scored = <<>> /\ recommendations = None
    /\ games = <<>> /\ pos = None /\ out = <<>>
    /\ now = Now0
    /\ cache_hours \in CacheHourSettings
    /\ cache \in [TeamIds -> RunFiles]
    /\ lk = IdleLookup
    /\ faults = 0
    /\ io = NoIo

FetchOddsFails_swallowed ==
    /\ mode = "run"
    /\ pc = "fetch_odds"
    /\ games' = <<>>
    /\ pos' = [g |-> 1, side |-> "home", home_feats |-> EmptySnapshot]
    /\ out' = <<>>
    /\ pc' = "features"
    /\ io' = [io EXCEPT !.odds = "non2xx"]
    /\ UNCHANGED <<mode, oddsVars, rankVars, now, cache_hours, cache, lk, faults>>

\* OddsClient._get: a non-2xx answer, raise_for_status raises through
\* get_nba_odds, fetch_odds and the chain.
FetchOddsFails ==
    /\ mode = "run"
    /\ pc = "fetch_odds"
    /\ pc' = "odds_error"
    /\ io' = [io EXCEPT !.odds = "non2xx"]
    /\ UNCHANGED <<mode, oddsVars, rankVars, now, cache_hours, cache, lk, faults, runVars>>

\* fetch_odds on a 2xx answer with a price 0 next to another price of the same
\* side: ZeroDivisionError leaves get_nba_odds, fetch_odds and the chain.
FetchOddsRaises ==
    /\ mode = "run"
    /\ pc = "fetch_odds"
    /\ \E data \in RawLists : get_nba_odds_raises(data)
    /\ pc' = "odds_error"
    /\ io' = [io EXCEPT !.odds = "2xx"]
    /\ UNCHANGED <<mode, oddsVars, rankVars, now, cache_hours, cache, lk, faults, runVars>>

\* fetch_odds on a 2xx answer.
FetchOdds ==
    /\ mode = "run"
    /\ pc = "fetch_odds"
    /\ \E data \in RawLists :
          /\ ~get_nba_odds_raises(data)
          /\ games' = fetch_odds(data)
          /\ io' = [io EXCEPT !.odds = "2xx", !.fetched = get_nba_odds(data)]
    /\ pos' = [g |-> 1, side |-> "home", home_feats |-> EmptySnapshot]
    /\ out' = <<>>
    /\ pc' = "features"
    /\ UNCHANGED <<mode, oddsVars, rankVars, now, cache_hours, cache, lk, faults>>

\* add_team_features with SKIP_STATS=1: no lookup at all.
SkipStats ==
    /\ pc = "features"
    /\ pos.g = 1 /\ pos.side = "home" /\ lk.lpc = "idle"
    /\ out' = [i \in 1..Len(games) |->
                 [game |-> games[i], home_feats |-> EmptySnapshot, away_feats |-> EmptySnapshot]]
    /\ pos' = [pos EXCEPT !.g = Len(games) + 1]
    /\ pc' = "score"
    /\ UNCHANGED <<mode, oddsVars, rankVars, statsVars, games>>

\* add_team_features calls rolling_team_features for the next team.
CallLookup ==
    /\ pc = "features"
    /\ pos.g <= Len(games)
    /\ lk.lpc = "idle"
    /\ lk' = EntryOf(IF pos.side = "home" THEN games[pos.g].home_team ELSE games[pos.g].away_team)
    /\ UNCHANGED <<mode, pc, oddsVars, rankVars, now, cache_hours, cache, faults, io, runVars>>

\* rolling_team_features returns to add_team_features.
ReturnLookup ==
    /\ pc = "features"
    /\ lk.lpc = "returned"
    /\ IF pos.side = "home"
       THEN /\ pos' = [pos EXCEPT !.side = "away", !.home_feats = lk.result]
            /\ out' = out
       ELSE /\ pos' = [g |-> pos.g + 1, side |-> "home", home_feats |-> EmptySnapshot]
            /\ out' = Append(out, [game |-> games[pos.g], home_feats |-> pos.home_feats,
                                   away_feats |-> lk.result])
    /\ lk' = IdleLookup
    /\ io' = [io EXCEPT !.done = @ + 1]
    /\ UNCHANGED <<mode, pc, oddsVars, rankVars, now, cache_hours, cache, faults, games>>

\* rolling_team_features raises: nothing in add_team_features or the chain catches.
LookupRaises ==
    /\ pc = "features"
    /\ lk.lpc = "raised"
    /\ pc' = "lookup_error"
    /\ UNCHANGED <<mode, oddsVars, rankVars, statsVars, runVars>>

\* add_team_features returns after the last game.
FeaturesDone ==
    /\ pc = "features"
    /\ pos.g > Len(games)
    /\ lk.lpc = "idle"
    /\ pc' = "score"
    /\ UNCHANGED <<mode, oddsVars, rankVars, statsVars, runVars>>

\* score_vs_market reaches ev_from_prob with the price 0 of a side.
score_raises(gs) ==
    \E i \in 1..Len(gs) : \E ml \in {gs[i].markets.h2h.home_price, gs[i].markets.h2h.away_price} :
        ml # None /\ divides_by_zero(Val(ml))

\* score_vs_market raises ZeroDivisionError: the run raises to its caller.
ScoreRaises ==
    /\ pc = "score"
    /\ score_raises([i \in 1..Len(out) |-> out[i].game])
    /\ pc' = "score_error"
    /\ UNCHANGED <<mode, oddsVars, rankVars, statsVars, runVars>>

\* score_vs_market, with the model and the injuries file of the run.
Score ==
    /\ pc = "score"
    /\ ~score_raises([i \in 1..Len(out) |-> out[i].game])
    /\ \E model \in Models, adj \in AdjustmentFiles :
          scored' \in score_vs_market([i \in 1..Len(out) |-> out[i].game], model, adj)
    /\ pc' = "rank"
    /\ UNCHANGED <<mode, oddsVars, recommendations, statsVars, runVars>>

NextRun ==
    \/ FetchOddsFails \/ FetchOddsRaises \/ FetchOdds
    \/ SkipStats \/ CallLookup \/ Lookup \/ ReturnLookup \/ LookupRaises \/ FeaturesDone
    \/ Score \/ ScoreRaises \/ RankRecs

SpecRun == InitRun /\ [][NextRun]_vars

(***************************************************************************)
(* Claims about one team lookup (SpecLookup).                              *)
(***************************************************************************)

KnownTeam == lk.team \in DOMAIN teams_by_fullname
PastFetch == lk.lpc \in {"compute", "returned", "raised"}
LiveCalls == {k \in 1..Len(lk.events) : lk.events[k].e = "live_call"}

\* The persisted dataset of the team as the lookup found it, and its age then.
File0 == Val(lk.file0)
Age0 == lk.now0 - File0.mtime

\* C6: a persisted dataset that exists, is readable and is younger than the
\* freshness threshold (6 hours by default) is used as it is, with no live call;
\* if it is absent or older than the threshold a live fetch attempt is made.
C6_FreshServedStaleFetched ==
    mode = "lookup" /\ KnownTeam /\ lk.lpc # "entry" =>
        /\ lk.file0 # None /\ File0.readable /\ Age0 < cache_hours * HourTicks
              => /\ LiveCalls = {}
                 /\ PastFetch
                 /\ lk.df = File0.data
                 /\ cache[lk.id] = lk.file0
        /\ (lk.file0 = None \/ Age0 > cache_hours * HourTicks) /\ PastFetch
              => LiveCalls # {}

\* The dataset written 5 hours before the lookup began was served: no live call,
\* statistics from it.
C6_Witness ==
    /\ mode = "lookup"
    /\ lk.lpc = "returned"
    /\ lk.file0 # None
    /\ cache_hours = CacheHours
    /\ Age0 = 5 * HourTicks + ClockStep
    /\ LiveCalls = {}
    /\ lk.result.kind = "feats"
    /\ lk.result.ver = 0

\* C7: when every live attempt has failed the lookup uses the persisted dataset
\* whenever there is a readable one, whatever its age, and its snapshot is empty
\* only when there is none.
C7_StaleWhateverAge ==
    mode = "lookup" /\ KnownTeam /\ PastFetch /\ lk.i >= 2 =>
        /\ lk.file0 # None /\ File0.readable => lk.df = File0.data
        /\ lk.lpc = "returned" /\ lk.result = EmptySnapshot
              => lk.file0 = None \/ ~File0.readable

\* In one lookup: at most 2 live calls, a politeness sleep right before each, and
\* no call after the one whose dataset was kept (write_df_cache follows it).
C10_Calls ==
    /\ Cardinality(LiveCalls) <= 2
    /\ \A k \in LiveCalls : k > 1 /\ lk.events[k - 1].e = "nba_sleep"
    /\ \A k \in LiveCalls :
          k < Len(lk.events) /\ lk.events[k + 1].e = "write"
              => \A j \in LiveCalls : j <= k

\* C10: one team lookup makes at most 2 live calls, each right after a politeness
\* delay, first attempt or retry, and none after an attempt gave a dataset with rows.
C10_AtMostTwoPoliteCalls == mode = "lookup" => C10_Calls

\* The first attempt raised, the second gave rows: two calls, each after its sleep.
C10_Witness ==
    /\ mode = "lookup"
    /\ lk.lpc = "returned"
    /\ Len(lk.events) = 7
    /\ [k \in 1..7 |-> lk.events[k].e]
         = <<"read", "nba_sleep", "live_call", "backoff", "nba_sleep", "live_call", "write">>
    /\ lk.result.kind = "feats"

(***************************************************************************)
(* Claims about the pipeline run (SpecRun).                                *)
(***************************************************************************)

\* C8: no failure inside a team's lookup raises out of rolling_team_features or
\* aborts add_team_features: the run raises only for the odds fetch, and once the
\* feature stage is over every team of every game has been looked up.
C8_LookupFailureIsolated ==
    mode = "run" =>
        /\ lk.lpc # "raised"
        /\ pc # "lookup_error"
        /\ pc \in {"score", "rank", "done"} /\ io.lookups > 0 => io.done = 2 * Len(games)

\* C9: after a non-2xx answer of the odds source the run has raised: there is no
\* recommendation list, and no lookup, live stats call or cache write was made, nor
\* can any follow.
C9_OddsFailureIsFatal ==
    mode = "run" /\ io.odds = "non2xx" =>
        /\ pc = "odds_error"
        /\ recommendations = None
        /\ scored = <<>>
        /\ io.lookups = 0 /\ io.calls = 0
        /\ \A id \in TeamIds : io.writes[id] = 0
        /\ lk = IdleLookup
        /\ ~ENABLED NextRun

\* The odds source answered non-2xx and the run stopped there.
C9_Witness ==
    /\ mode = "run"
    /\ io.odds = "non2xx"
    /\ pc = "odds_error"
    /\ \E id \in TeamIds : cache[id] = None

(***************************************************************************)
(* Claims about the retry loop, the persisted copy and its writers         *)
(***************************************************************************)

Backoffs == {k \in 1..Len(lk.events) : lk.events[k].e = "backoff"}

\* C11: in one team lookup, between a live call that failed (exception or empty
\* payload) and the live call that follows it a backoff delay is slept, and a
\* later backoff is longer than an earlier one.
C11_BackoffBetweenAttempts ==
    mode = "lookup" =>
        /\ \A a, b \in LiveCalls : a < b => \E k \in Backoffs : a < k /\ k < b
        /\ \A j, k \in Backoffs : j < k => lk.events[j].d < lk.events[k].d

HasEvent(e) == \E k \in 1..Len(lk.events) : lk.events[k].e = e

\* A live call of this lookup answered rows (write_df_cache was called).
Fetched == KnownTeam /\ PastFetch /\ HasEvent("write")

ResultFromFetched ==
    lk.lpc = "returned" =>
        lk.result # EmptySnapshot /\ lk.result.ver = io.calls /\ lk.result.ver # 0

\* C12 as stated: once a live call has answered rows, the persisted dataset of
\* the team is exactly the fetched dataset, and the snapshot returned is computed
\* from the fetched dataset.
C12_PersistedEqualsFetched ==
    mode = "lookup" /\ Fetched =>
        /\ cache[lk.id] = Some(File(now, TRUE, lk.df))
        /\ lk.df.ver = io.calls
        /\ ResultFromFetched

\* C12 (amended): once a live call has answered rows, write_df_cache has been
\* called with them; when the write did not fail the persisted dataset is exactly
\* the fetched one, whatever copy was there before; a failed write is swallowed
\* and the lookup goes on; either way the snapshot returned is computed from the
\* fetched dataset.
C12_WrittenUnlessWriteFails ==
    mode = "lookup" /\ Fetched =>
        /\ ~HasEvent("write_error") => cache[lk.id] = Some(File(now, TRUE, lk.df))
        /\ lk.df.ver = io.calls /\ ~lk.df.empty
        /\ ResultFromFetched
        /\ LiveCalls # {}

\* A stale copy was replaced by the fetched dataset and the lookup returned.
C12_Witness ==
    /\ mode = "lookup" /\ Fetched
    /\ lk.file0 # None /\ File0.readable /\ File0.data.ver = 0
    /\ ~HasEvent("write_error")
    /\ cache[lk.id] # lk.file0
    /\ Val(cache[lk.id]).data.ver = 1
    /\ lk.lpc = "returned" /\ lk.result.ver = 1

(***************************************************************************)
(* Claims about the persisted copies in one pipeline run (SpecRun)         *)
(***************************************************************************)

InLookup == KnownTeam /\ lk.lpc \notin {"idle", "entry"}

\* The lookup in progress found a readable copy that this run had written.
FoundOwnCopy == lk.file0 # None /\ File0.readable /\ File0.data.ver > 0

Served == LiveCalls = {} /\ lk.df = File0.data /\ cache[lk.id] = lk.file0

FileEvents == {"read", "write", "write_error"}

OnlyOwnFile ==
    /\ lk.id = teams_by_fullname[lk.team]
    /\ \A k \in 1..Len(lk.events) : lk.events[k].e \in FileEvents => lk.events[k].d = lk.id

\* A step changes the persisted dataset of a team only within that team's lookup.
WriteIsOwn ==
    \A id \in TeamIds : cache'[id] # cache[id] => lk.id = id /\ lk.lpc = "fetch" /\ KnownTeam

\* C13 as stated: in one pipeline run each team's persisted dataset is written
\* at most once; a lookup touches only its own team's file; once a lookup has
\* fetched and persisted a team's data, every later lookup of that team is
\* served from the persisted copy without a live call.
C13_WrittenOncePerRun ==
    mode = "run" =>
        /\ \A id \in TeamIds : io.writes[id] <= 1
        /\ InLookup => OnlyOwnFile
        /\ InLookup /\ FoundOwnCopy => Served

\* C13 (amended): a team's persisted dataset is written only by a lookup of that
\* team, and only by one that found no readable copy younger than the freshness
\* threshold; a lookup touches only its own team's file; a later lookup of a team
\* whose data this run has persisted is served from that copy, without a live
\* call or a write, as long as the copy is not older than the threshold.
C13_OwnFileAndFreshServed ==
    /\ [](mode = "run" =>
            /\ InLookup => OnlyOwnFile
            /\ InLookup /\ FoundOwnCopy /\ Age0 <= cache_hours * HourTicks => Served
            /\ cache_hours = CacheHours => \A id \in TeamIds : io.writes[id] <= 1)
    /\ [][mode = "run" =>
            /\ WriteIsOwn
            /\ cache' # cache =>
                  ~(lk.file0 # None /\ File0.readable /\ Age0 <= cache_hours * HourTicks)]_vars

\* The second lookup of a team in the run was served from the copy the first
\* one had persisted.
C13_Witness ==
    /\ mode = "run"
    /\ cache_hours = CacheHours
    /\ InLookup /\ FoundOwnCopy
    /\ lk.lpc = "returned"
    /\ LiveCalls = {}
    /\ lk.result.ver = File0.data.ver
    /\ io.writes[lk.id] = 1
    /\ io.lookups >= 3

(***************************************************************************)
(* get_nba_odds on one raw game: the away team (SpecInfer)                 *)
(***************************************************************************)

MaxTeams == 3     \* longest "teams" list of a raw game

InferNames == {NoName, HomeName, AwayName, UnknownTeam}

TeamLists == UNION {[1..n -> InferNames] : n \in 0..MaxTeams}

InferGames ==
    [home_team : {NoName, HomeName}, away_team : {NoName, AwayName},
     teams : TeamLists, quotes : {<<>>}]

InitInfer ==
    /\ mode = "infer"
    /\ pc = "raw"
    /\ UnusedOdds
    /\ scored = <<>> /\ recommendations = None
    /\ UnusedStats
    /\ \E g \in InferGames : games = <<g>>
    /\ pos = None
    /\ out = <<>>

\* The loop body of get_nba_odds for the raw game: out is the list returned.
InferAway ==
    /\ mode = "infer"
    /\ pc = "raw"
    /\ out' = get_nba_odds(games)
    /\ pc' = "inferred"
    /\ UNCHANGED <<mode, oddsVars, rankVars, statsVars, games, pos>>

NextInfer == InferAway

SpecInfer == InitInfer /\ [][NextInfer]_vars

Raw == games[1]

\* The raw game has no away-team field, a home team and a list of two teams.
NeedsInference ==
    /\ mode = "infer" /\ pc = "inferred"
    /\ Raw.away_team = NoName /\ Raw.home_team # NoName /\ Len(Raw.teams) = 2

\* C14 as stated: the away team inferred from a two-element list is the element
\* other than the home team, and is never equal to the home team.
C14_InferredAwayIsOther ==
    NeedsInference =>
        /\ out[1].away_team \in {Raw.teams[1], Raw.teams[2]}
        /\ out[1].away_team # out[1].home_team

(***************************************************************************)
(* Claims about the games of a pipeline run (SpecRun)                      *)
(***************************************************************************)

\* The fetched games that have both names, in the order fetched.
Kept == SelectSeq(io.fetched, BothNames)
Dropped == {i \in 1..Len(io.fetched) : ~BothNames(io.fetched[i])}

SameGame(r, g) ==
    /\ r.home = g.home_team /\ r.away = g.away_team
    /\ r.moneyline.home = g.markets.h2h.home_price
    /\ r.moneyline.away = g.markets.h2h.away_price

\* Every kept game, in order, and nothing else.
OnePerKept(recs) ==
    /\ Len(recs) = Len(Kept)
    /\ \A k \in 1..Len(Kept) : SameGame(recs[k], Kept[k])

\* The ranked list holds each scored record exactly once.
Permuted(ranked, recs) ==
    /\ Len(ranked) = Len(recs)
    /\ \A k \in 1..Len(recs) : \E j \in 1..Len(ranked) : ranked[j].game = recs[k]
    /\ \A i, j \in 1..Len(ranked) : ranked[i].game.idx = ranked[j].game.idx => i = j

\* C15: the recommendation list of a run has exactly one record for each fetched
\* game with both team names and none for a game missing a name; such a game is
\* dropped before feature lookup and scoring, and neither the scorer nor the
\* ranker drops or duplicates a game.
C15_OneRecordPerNamedGame ==
    mode = "run" /\ io.odds = "2xx" =>
        /\ games = Kept
        /\ lk.lpc # "idle" => lk.team # NoName
        /\ io.lookups <= 2 * Len(Kept)
        /\ \A k \in 1..Len(out) : SameGame([home |-> out[k].game.home_team,
                                            away |-> out[k].game.away_team,
                                            moneyline |-> [home |-> out[k].game.markets.h2h.home_price,
                                                           away |-> out[k].game.markets.h2h.away_price]],
                                           Kept[k])
        /\ pc \in {"rank", "done"} => OnePerKept(scored)
        /\ pc = "done" =>
              /\ Permuted(Ranked, scored)
              /\ \A j \in 1..Len(Ranked) :
                    Ranked[j].game.home # NoName /\ Ranked[j].game.away # NoName

\* A run that fetched a game without a home team and then a game whose away team
\* was inferred has ranked exactly the second.
C15_Witness ==
    /\ mode = "run" /\ pc = "done"
    /\ Len(io.fetched) = 2
    /\ Dropped = {1}
    /\ Len(Ranked) = 1
    /\ Ranked[1].game.away = UnknownTeam

(***************************************************************************)
(* adjust_home_prob on one game (SpecAdjust)                               *)
(***************************************************************************)

\* Probabilities and offsets in units of 1/Scale, inside and outside [0, 1].
ProbInputs == {-2000, 0, 50, 100, 5000, 6500, 9900, 9950, 12000}
Offsets == {-20000, -600, 0, 300, 20000}
AdjustTeams == {HomeName, AwayName, UnknownTeam}

InjuryFiles ==
    {[kind |-> "missing", map |-> <<>>], [kind |-> "malformed", map |-> <<>>]}
    \cup {[kind |-> "mapping", map |-> m] :
             m \in UNION {[S -> Offsets] : S \in SUBSET {HomeName, AwayName}}}

InitAdjust ==
    /\ mode = "adjust"
    /\ pc = "input"
    /\ UnusedOdds
    /\ scored = <<>> /\ recommendations = None
    /\ UnusedStats
    /\ games = <<>>
    /\ \E f \in InjuryFiles, h \in AdjustTeams, a \in AdjustTeams, p \in ProbInputs :
          pos = [file |-> f, home |-> h, away |-> a, p_home |-> p]
    /\ out = <<>>

\* p_home = adjust_home_prob(home, away, p_home); p_away = 1.0 - p_home
Adjust ==
    /\ mode = "adjust"
    /\ pc = "input"
    /\ LET p == adjust_home_prob(load_adjustments(pos.file), pos.home, pos.away, pos.p_home)
       IN  out' = <<[p_home |-> p, p_away |-> Scale - p]>>
    /\ pc' = "adjusted"
    /\ UNCHANGED <<mode, oddsVars, rankVars, statsVars, games, pos>>

NextAdjust == Adjust

SpecAdjust == InitAdjust /\ [][NextAdjust]_vars

\* The offset of a team as the claim defines it.
OffsetOf(team) ==
    IF pos.file.kind = "mapping" /\ team \in DOMAIN pos.file.map THEN pos.file.map[team] ELSE 0

Shifted == pos.p_home + OffsetOf(pos.home) - OffsetOf(pos.away)

InRange(x) == 100 <= x /\ x <= 9900

\* C16: adjust_home_prob returns p + offset(home) - offset(away) limited to
\* [0.01, 0.99], a team without an entry (any team when the file is missing or
\* malformed) having offset 0; the result and the away probability 1 - result
\* both lie in [0.01, 0.99].
C16_AdjustedWithinBounds ==
    mode = "adjust" /\ pc = "adjusted" =>
        /\ InRange(Shifted) => out[1].p_home = Shifted
        /\ Shifted < 100 => out[1].p_home = 100
        /\ Shifted > 9900 => out[1].p_home = 9900
        /\ InRange(out[1].p_home)
        /\ InRange(out[1].p_away)

\* An offset of the home team took the probability below 0.01.
C16_Witness ==
    /\ mode = "adjust" /\ pc = "adjusted"
    /\ pos.file.kind = "mapping"
    /\ pos.home \in DOMAIN pos.file.map /\ pos.away \notin DOMAIN pos.file.map
    /\ Shifted < 0
    /\ out[1].p_home = 100 /\ out[1].p_away = 9900

(***************************************************************************)
(* kelly_fraction on one probability and one price (SpecKelly)             *)
(***************************************************************************)

\* Probabilities in (0, 1) in units of 1/Scale, and American prices.
KellyProbs == {1, 100, 2500, 4762, 5000, 5238, 6500, 9900, 9999}
KellyOdds == {-1000, -300, -150, -120, -110, -105, -100, -1, 0,
              1, 50, 100, 105, 110, 150, 200, 300}

InitKelly ==
    /\ mode = "kelly"
    /\ pc = "input"
    /\ UnusedOdds
    /\ scored = <<>> /\ recommendations = None
    /\ UnusedStats
    /\ games = <<>>
    /\ \E p \in KellyProbs, a \in KellyOdds : pos = [p |-> p, odds |-> a]
    /\ out = <<>>

\* kelly_fraction(p, odds): its value as an exact fraction, or the error raised.
Kelly ==
    /\ mode = "kelly"
    /\ pc = "input"
    /\ out' = IF divides_by_zero(pos.odds)
              THEN <<[raised |-> TRUE, f |-> <<0, 1>>]>>
              ELSE <<[raised |-> FALSE, f |-> kelly_fraction(pos.p, pos.odds)]>>
    /\ pc' = "returned"
    /\ UNCHANGED <<mode, oddsVars, rankVars, statsVars, games, pos>>

NextKelly == Kelly

SpecKelly == InitKelly /\ [][NextKelly]_vars

\* b of the claim: a/100 for a > 0 and 100/|a| otherwise, as a fraction.
ClaimB == IF pos.odds > 0 THEN <<pos.odds, 100>> ELSE <<100, Abs(pos.odds)>>

\* p * (b + 1) - 1 in units of 1/Scale, times the denominator of b.
ClaimNumer == pos.p * (ClaimB[1] + ClaimB[2]) - Scale * ClaimB[2]

\* C17: for p in (0, 1) and a price a # 0, kelly_fraction returns
\* max(0, (p * (b + 1) - 1) / b), which is never negative and is 0 at break-even
\* (p = 0.5, a = +100); no division error is raised.
C17_KellyFlooredAtZero ==
    mode = "kelly" /\ pc = "returned" /\ pos.odds # 0 =>
        LET f == out[1].f
        IN  /\ ~out[1].raised
            /\ f[2] > 0 /\ f[1] >= 0
            /\ ClaimNumer <= 0 => f[1] = 0
            /\ ClaimNumer > 0 => f[1] * ClaimB[1] = ClaimNumer * f[2]
            /\ pos.p = 5000 /\ pos.odds = 100 => f[1] = 0

\* A stake that would be negative (p = 0.25 at -150) was floored at 0.
C17_Witness ==
    /\ mode = "kelly" /\ pc = "returned"
    /\ pos.p = 2500 /\ pos.odds = -150
    /\ ClaimNumer < 0
    /\ out[1].f[1] = 0 /\ ~out[1].raised

(***************************************************************************)
(* Claims about the records of the full pipeline (SpecRun)                 *)
(***************************************************************************)

Sides == {"home", "away"}

\* For a side of a scored record: every metric is defined, or none is, as the
\* moneyline price of the side is present or not.
MetricsFollowPrice(g, side) ==
    LET priced == SideOf(g.moneyline, side) # None
    IN  /\ (SideOf(g.ev, side) # None) = priced
        /\ (SideOf(g.kelly, side) # None) = priced
        /\ (SideOf(g.market_implied, side) # None) = priced
        /\ (SideOf(g.edge, side) # None) = priced

\* C18: in every recommendation of the full pipeline, for each side the EV, the
\* Kelly fraction, the implied probability and the edge are defined exactly when
\* the side's moneyline price is present; hence a record ranked by "edge" has an
\* undefined best_metric and best_side "home".
C18_MetricsDefinedWithPrice ==
    mode = "run" /\ pc = "done" =>
        \A j \in 1..Len(Ranked) :
            /\ \A side \in Sides : MetricsFollowPrice(Ranked[j].game, side)
            /\ Ranked[j].metric_name = "edge"
                  => /\ Ranked[j].best_metric = None
                     /\ Ranked[j].best_side = "home"
                     /\ \A side \in Sides : SideOf(Ranked[j].game.moneyline, side) = None
            /\ Ranked[j].metric_name = "EV"
                  => \E side \in Sides : SideOf(Ranked[j].game.moneyline, side) # None

\* A run ranked a priced game by EV ahead of a game without any price, which is
\* ranked by "edge" with no value.
C18_Witness ==
    /\ mode = "run" /\ pc = "done"
    /\ Len(Ranked) = 2
    /\ Ranked[1].metric_name = "EV" /\ Ranked[1].best_metric # None
    /\ Ranked[1].game.moneyline.home # None /\ Ranked[1].game.kelly.home # None
    /\ Ranked[2].metric_name = "edge" /\ Ranked[2].best_metric = None
    /\ Ranked[2].best_side = "home"


==============================================================================
